---- MODULE Spec2Model ----
(***************************************************************************)
(* The four tutorial notebooks of reaktoro-jupyter, run top to bottom.     *)
(* Every code statement of a notebook is one step of the kernel; the       *)
(* kernel's state is the Python namespace, the objects the statements      *)
(* configure (problem, output, files, console, figures) and the record of  *)
(* which statements completed and which raised.                            *)
(***************************************************************************)
EXTENDS Integers, Sequences, FiniteSets, TLC

\* ------------------------------------------------------------------ bounds
MaxFaults == 1  \* library calls that may raise during one run
MaxLn     == 1  \* lnK and lnQ returned by the library range over 0..MaxLn
NRows     == 2  \* data rows the path solver writes below the header row

\* ------------------------------------------------------- program constants
NCols == 6      \* numpy.arange(6): the number of indices unpacked
SkipRows == 1   \* loadtxt(..., skiprows=1)

\* The logarithms the library may return: in the runs without faults, and a
\* fixed sample of them in the runs with faults.
LnValues == 0..MaxLn
LnSample == {0, 1}

\* --------------------------------------------------------------- statements
\* One code statement: its first source line, the code cell it belongs to,
\* the kind of step it is, the function it calls, the names it binds and
\* uses, two arguments, and the arithmetic operators the notebook itself
\* applies in it.
St(line, cell, op, call, def, use, a1, a2, ops) ==
  [line |-> line, cell |-> cell, op |-> op, call |-> call, def |-> def,
   use |-> use, a1 |-> a1, a2 |-> a2, ops |-> ops]

None == <<>>
MulDiv == <<"*", "/">>

\* problem.add(X, c * 1e-6 / system.species(Y).molarMass(), "mol")
AddMg(line, cell, x, y) ==
  St(line, cell, "define", "problem.add", {}, {"problem", "system"}, x, y, MulDiv)

\* problem.add(X, literal, unit)
AddLit(line, cell, obj, x) ==
  St(line, cell, "define", "problem.add", {}, {obj}, x, "", None)

Nacl ==
  << St(18, 1, "import", "import", {"reaktoro"}, {}, "reaktoro*", "", None),
     St(34, 2, "build", "Database", {"db"}, {"reaktoro"}, "supcrt98.xml", "", None),
     St(50, 3, "build", "ChemicalEditor", {"editor"}, {"reaktoro", "db"}, "", "", None),
     St(51, 3, "build", "editor.addAqueousPhaseWithElements", {}, {"editor"}, "H O Na Cl", "", None),
     St(52, 3, "build", "editor.addMineralPhase", {}, {"editor"}, "Halite", "", None),
     St(68, 4, "build", "ChemicalSystem", {"system"}, {"reaktoro", "editor"}, "", "", None),
     St(84, 5, "print", "print", {}, {"system"}, "system", "", None),
     St(100, 6, "define", "EquilibriumProblem", {"problem"}, {"reaktoro", "system"}, "", "", None),
     St(101, 6, "define", "problem.setTemperature", {}, {"problem"}, "25", "celsius", None),
     St(102, 6, "define", "problem.setPressure", {}, {"problem"}, "1", "bar", None),
     AddLit(103, 6, "problem", "H2O"),
     AddLit(104, 6, "problem", "NaCl"),
     St(134, 7, "solve", "equilibrate", {"state"}, {"reaktoro", "problem"}, "", "", None),
     St(151, 8, "print", "print", {}, {"state"}, "state", "", None),
     AddLit(169, 9, "problem", "NaCl"),
     St(170, 9, "solve", "equilibrate", {"state"}, {"reaktoro", "problem"}, "", "", None),
     St(171, 9, "print", "print", {}, {"state"}, "state", "", None),
     St(188, 10, "print", "print", {}, {"state"}, "state.speciesAmount(Halite)", "", None) >>

\* The saturation cell with the operands of the subtraction exchanged.
SatCellSwapped(l1, l2, l3, l4, cell, m) ==
  << St(l1, cell, "query", "lnEquilibriumConstant", {"lnK_" \o m},
        {"reaction_" \o m, "props"}, m, "", None),
     St(l2, cell, "query", "lnReactionQuotient", {"lnQ_" \o m},
        {"reaction_" \o m, "props"}, m, "", None),
     St(l3, cell, "compute", "-", {"SR_" \o m}, {"lnQ_" \o m, "lnK_" \o m},
        "lnK_" \o m, "lnQ_" \o m, <<"-">>),
     St(l4, cell, "compute", "exp", {"SI_" \o m}, {"math", "SR_" \o m},
        "SR_" \o m, "", <<"exp">>) >>

\* lnK_m = reaction_m.lnEquilibriumConstant(props), lnQ_m likewise, then
\* SR_m = lnQ_m.val - lnK_m.val and SI_m = exp(SR_m)
SatCell(l1, l2, l3, l4, cell, m) ==
  << St(l1, cell, "query", "lnEquilibriumConstant", {"lnK_" \o m},
        {"reaction_" \o m, "props"}, m, "", None),
     St(l2, cell, "query", "lnReactionQuotient", {"lnQ_" \o m},
        {"reaction_" \o m, "props"}, m, "", None),
     St(l3, cell, "compute", "-", {"SR_" \o m}, {"lnQ_" \o m, "lnK_" \o m},
        "lnQ_" \o m, "lnK_" \o m, <<"-">>),
     St(l4, cell, "compute", "exp", {"SI_" \o m}, {"math", "SR_" \o m},
        "SR_" \o m, "", <<"exp">>) >>

Evian ==
  << St(25, 1, "import", "import", {"reaktoro"}, {}, "reaktoro*", "", None),
     St(26, 1, "import", "import", {"math"}, {}, "math*", "", None),
     St(28, 1, "build", "Database", {"db"}, {"reaktoro"}, "supcrt98.xml", "", None),
     St(30, 1, "build", "ChemicalEditor", {"editor"}, {"reaktoro", "db"}, "", "", None),
     St(32, 1, "build", "editor.addAqueousPhaseWithElements", {}, {"editor"}, "C Ca Cl H K Mg N Na O S Si", "", None),
     St(33, 1, "build", "editor.addMineralPhase", {}, {"editor"}, "Calcite", "", None),
     St(34, 1, "build", "editor.addMineralPhase", {}, {"editor"}, "Dolomite", "", None),
     St(35, 1, "build", "editor.addMineralPhase", {}, {"editor"}, "Quartz", "", None),
     St(37, 1, "build", "ChemicalSystem", {"system"}, {"reaktoro", "editor"}, "", "", None),
     St(54, 2, "build", "ReactionEquation", {"reaction_equation_calcite"}, {"reaktoro"}, "Calcite", "", None),
     St(55, 2, "build", "ReactionEquation", {"reaction_equation_dolomite"}, {"reaktoro"}, "Dolomite", "", None),
     St(56, 2, "build", "ReactionEquation", {"reaction_equation_quartz"}, {"reaktoro"}, "Quartz", "", None),
     St(59, 2, "build", "Reaction", {"reaction_calcite"}, {"reaktoro", "reaction_equation_calcite", "system"}, "", "", None),
     St(60, 2, "build", "Reaction", {"reaction_dolomite"}, {"reaktoro", "reaction_equation_dolomite", "system"}, "", "", None),
     St(61, 2, "build", "Reaction", {"reaction_quartz"}, {"reaktoro", "reaction_equation_quartz", "system"}, "", "", None),
     St(78, 3, "define", "EquilibriumInverseProblem", {"problem"}, {"reaktoro", "system"}, "", "", None),
     St(80, 3, "define", "problem.setTemperature", {}, {"problem"}, "25", "celsius", None),
     St(81, 3, "define", "problem.setPressure", {}, {"problem"}, "1.01325", "bar", None),
     AddLit(82, 3, "problem", "H2O"),
     AddMg(101, 4, "Ca++", "Ca++"),
     AddMg(103, 4, "Cl-", "Cl-"),
     AddMg(105, 4, "HCO3-", "HCO3-"),
     AddMg(107, 4, "Mg++", "Mg++"),
     AddMg(109, 4, "NO3-", "NO3-"),
     AddMg(111, 4, "K+", "K+"),
     AddMg(113, 4, "Na+", "Na+"),
     AddMg(115, 4, "SO4--", "S2O4--"),
     St(132, 5, "define", "problem.add", {}, {"problem"}, "Si", "", MulDiv),
     AddLit(148, 6, "problem", "Calcite"),
     AddLit(149, 6, "problem", "Dolomite"),
     AddLit(150, 6, "problem", "Quartz"),
     St(151, 6, "define", "problem.pH", {}, {"problem"}, "7.2", "HCl NaOH", None),
     St(169, 7, "solve", "equilibrate", {"state"}, {"reaktoro", "problem"}, "", "", None),
     St(170, 7, "print", "print", {}, {"state"}, "state", "", None),
     St(192, 8, "query", "state.properties", {"props"}, {"state"}, "", "", None) >>
  \o SatCell(194, 196, 198, 199, 8, "calcite")
  \o SatCell(202, 203, 204, 205, 8, "dolomite")
  \o SatCell(208, 209, 210, 211, 8, "quartz")
  \o
  << St(213, 8, "print", "print", {}, {"SI_calcite"}, "SI_calcite", "", None),
     St(214, 8, "print", "print", {}, {"SI_dolomite"}, "SI_dolomite", "", None),
     St(215, 8, "print", "print", {}, {"SI_quartz"}, "SI_quartz", "", None),
     St(235, 9, "query", "state.phaseStabilityIndices", {"phase_stability_indices"}, {"state"}, "", "", None),
     St(238, 9, "query", "system.indexPhase", {"calcite_phase_index"}, {"system"}, "Calcite", "", None),
     St(239, 9, "query", "system.indexPhase", {"dolomite_phase_index"}, {"system"}, "Dolomite", "", None),
     St(240, 9, "query", "system.indexPhase", {"quartz_phase_index"}, {"system"}, "Quartz", "", None),
     St(243, 9, "print", "print", {}, {"phase_stability_indices", "calcite_phase_index"}, "phase_stability_indices[calcite_phase_index]", "", None),
     St(244, 9, "print", "print", {}, {"phase_stability_indices", "dolomite_phase_index"}, "phase_stability_indices[dolomite_phase_index]", "", None),
     St(245, 9, "print", "print", {}, {"phase_stability_indices", "quartz_phase_index"}, "phase_stability_indices[quartz_phase_index]", "", None),
     St(264, 10, "assign", "str", {"ex1"}, {}, "SOLUTION 1", "", None),
     St(303, 11, "build", "Phreeqc", {"phreeqc"}, {"reaktoro"}, "../databases/phreeqc/phreeqc.dat", "", None),
     St(321, 12, "solve", "phreeqc.execute", {}, {"phreeqc", "ex1"}, "", "", None),
     St(339, 13, "build", "ChemicalSystem", {"system"}, {"reaktoro", "phreeqc"}, "", "", None),
     St(356, 14, "query", "phreeqc.state", {"state"}, {"phreeqc", "system"}, "", "", None),
     St(373, 15, "print", "print", {}, {"state"}, "state", "", None) >>

\* output.add(quantity, label) / output.add(quantity)
OutAdd(line, cell, q, label) ==
  St(line, cell, "config", "output.add", {}, {"output"}, q, label, None)

\* plt.<call>(...) with no data argument
Plt(line, cell, call, text) ==
  St(line, cell, "plot", call, {}, {"plt"}, text, "", None)

\* plt.plot(x, y, ...): x and y name an index into data or a row of data
PltPlotSwapped(line, cell, x, y, use) ==
  St(line, cell, "plot", "plt.plot", {}, {"plt", "data"} \cup use, y, x, None)
PltPlot(line, cell, x, y, use) ==
  St(line, cell, "plot", "plt.plot", {}, {"plt", "data"} \cup use, x, y, None)

EqPath ==
  << St(35, 1, "import", "import", {"reaktoro"}, {}, "reaktoro*", "", None),
     St(55, 2, "build", "ChemicalEditor", {"editor"}, {"reaktoro"}, "", "", None),
     St(74, 3, "build", "editor.addAqueousPhaseWithElements", {}, {"editor"}, "H O Ca C Cl", "", None),
     St(75, 3, "build", "editor.addMineralPhase", {}, {"editor"}, "Calcite", "", None),
     St(77, 3, "build", "ChemicalSystem", {"system"}, {"reaktoro", "editor"}, "", "", None),
     St(95, 4, "define", "EquilibriumProblem", {"initial_problem"}, {"reaktoro", "system"}, "", "", None),
     St(96, 4, "define", "problem.setTemperature", {}, {"initial_problem"}, "30.0", "celsius", None),
     St(97, 4, "define", "problem.setPressure", {}, {"initial_problem"}, "1.0", "bar", None),
     AddLit(98, 4, "initial_problem", "H2O"),
     AddLit(99, 4, "initial_problem", "CaCO3"),
     St(101, 4, "define", "EquilibriumProblem", {"final_problem"}, {"reaktoro", "system"}, "", "", None),
     St(102, 4, "define", "problem.setTemperature", {}, {"final_problem"}, "30.0", "celsius", None),
     St(103, 4, "define", "problem.setPressure", {}, {"final_problem"}, "1.0", "bar", None),
     AddLit(104, 4, "final_problem", "H2O"),
     AddLit(105, 4, "final_problem", "CaCO3"),
     AddLit(106, 4, "final_problem", "HCl"),
     St(124, 5, "solve", "equilibrate", {"initial_state"}, {"reaktoro", "initial_problem"}, "", "", None),
     St(125, 5, "solve", "equilibrate", {"final_state"}, {"reaktoro", "final_problem"}, "", "", None),
     St(144, 6, "build", "EquilibriumPath", {"path"}, {"reaktoro", "system"}, "", "", None),
     St(165, 7, "config", "path.output", {"output"}, {"path"}, "", "", None),
     St(166, 7, "config", "output.filename", {}, {"output"}, "result.txt", "", None),
     OutAdd(167, 7, "elementAmount(Cl units=mmol)", "Cl [mmol]"),
     OutAdd(168, 7, "speciesMolality(CO2(aq) units=mmolal)", "CO2(aq) [mmol]"),
     OutAdd(169, 7, "speciesMolality(CO3-- units=mmolal)", "CO3-- [mmol]"),
     OutAdd(170, 7, "elementMolality(Ca units=mmolal)", "Ca [mmolal]"),
     OutAdd(171, 7, "pH", ""),
     OutAdd(172, 7, "speciesMass(Calcite units=g)", ""),
     St(200, 8, "solve", "path.solve", {"path"}, {"path", "initial_state", "final_state"}, "", "", None),
     St(219, 9, "import", "import", {"plt"}, {}, "matplotlib.pyplot", "", None),
     St(220, 9, "import", "import", {"np"}, {}, "numpy", "", None),
     St(236, 10, "load", "np.loadtxt", {"filearray"}, {"np"}, "result.txt", "", None),
     St(237, 10, "assign", "T", {"data"}, {"filearray"}, "", "", None),
     St(238, 10, "assign", "arange", {"cl_indx", "co2aq_indx", "co3_indx", "ca_indx", "ph_indx", "calcite_indx"}, {"np"}, "", "", None),
     Plt(268, 11, "plt.figure", ""),
     PltPlot(269, 11, "ph_indx", "cl_indx", {"ph_indx", "cl_indx"}),
     Plt(270, 11, "plt.xlabel", "pH"),
     Plt(271, 11, "plt.ylabel", "Amount of Cl [mmol]"),
     Plt(272, 11, "plt.tight_layout", ""),
     Plt(290, 12, "plt.figure", ""),
     PltPlot(291, 12, "cl_indx", "ca_indx", {"cl_indx", "ca_indx"}),
     Plt(292, 12, "plt.xlabel", "Amount of Cl [mmol]"),
     Plt(293, 12, "plt.ylabel", "Concentration of Ca [mmolal]"),
     Plt(294, 12, "plt.tight_layout", ""),
     Plt(311, 13, "plt.figure", ""),
     PltPlot(312, 13, "ph_indx", "co2aq_indx", {"ph_indx", "co2aq_indx"}),
     PltPlot(313, 13, "ph_indx", "co3_indx", {"ph_indx", "co3_indx"}),
     Plt(314, 13, "plt.xlabel", "pH"),
     Plt(315, 13, "plt.ylabel", "Concentration [mmolal]"),
     Plt(316, 13, "plt.legend", ""),
     Plt(317, 13, "plt.tight_layout", ""),
     Plt(334, 14, "plt.figure", ""),
     PltPlot(335, 14, "cl_indx", "calcite_indx", {"cl_indx", "calcite_indx"}),
     Plt(336, 14, "plt.xlabel", "HCl [mmol]"),
     Plt(337, 14, "plt.ylabel", "Mass [g]"),
     Plt(338, 14, "plt.legend", ""),
     Plt(339, 14, "plt.tight_layout", "") >>

Kin ==
  << St(24, 1, "import", "import", {"reaktoro"}, {}, "reaktoro*", "", None),
     St(46, 2, "build", "ChemicalEditor", {"editor"}, {"reaktoro"}, "", "", None),
     St(47, 2, "build", "editor.addAqueousPhaseWithElementsOf", {}, {"editor"}, "H2O HCl CaCO3", "", None),
     St(48, 2, "build", "editor.addMineralPhase", {}, {"editor"}, "Calcite", "", None),
     St(80, 3, "build", "editor.addMineralReaction", {}, {"editor"}, "Calcite", "", None),
     St(108, 4, "build", "ChemicalSystem", {"system"}, {"reaktoro", "editor"}, "", "", None),
     St(109, 4, "build", "ReactionSystem", {"reactions"}, {"reaktoro", "editor"}, "", "", None),
     St(135, 5, "build", "Partition", {"partition"}, {"reaktoro", "system"}, "", "", None),
     St(136, 5, "build", "partition.setKineticSpecies", {}, {"partition"}, "Calcite", "", None),
     St(156, 6, "define", "EquilibriumProblem", {"problem"}, {"reaktoro", "system"}, "", "", None),
     St(157, 6, "define", "problem.setPartition", {}, {"problem", "partition"}, "", "", None),
     St(158, 6, "define", "problem.setTemperature", {}, {"problem"}, "30", "celsius", None),
     St(159, 6, "define", "problem.setPressure", {}, {"problem"}, "1", "bar", None),
     AddLit(160, 6, "problem", "H2O"),
     AddLit(161, 6, "problem", "HCl"),
     St(191, 7, "solve", "equilibrate", {"state0"}, {"reaktoro", "problem"}, "", "", None),
     St(215, 8, "define", "state0.setSpeciesMass", {}, {"state0"}, "Calcite", "g", None),
     St(235, 9, "build", "KineticPath", {"path"}, {"reaktoro", "reactions"}, "", "", None),
     St(236, 9, "build", "path.setPartition", {}, {"path", "partition"}, "", "", None),
     St(253, 10, "config", "path.output", {"output"}, {"path"}, "", "", None),
     St(254, 10, "config", "output.filename", {}, {"output"}, "results.txt", "", None),
     OutAdd(255, 10, "time(units=minute)", ""),
     OutAdd(256, 10, "elementMolality(Ca units=mmolal)", "Ca [mmolal]"),
     OutAdd(257, 10, "phaseMass(Calcite units=g)", "Calcite [units=g]"),
     OutAdd(258, 10, "speciesMolality(Ca++ units=mmolal)", "Ca++ [mmol]"),
     OutAdd(259, 10, "speciesMolality(HCO3- units=mmolal)", "HCO3- [mmol]"),
     OutAdd(260, 10, "pH", ""),
     St(287, 11, "assign", "tuple", {"t0", "t1"}, {}, "0.0", "5.0", None),
     St(288, 11, "solve", "path.solve", {}, {"path", "state0", "t0", "t1"}, "", "", None),
     St(307, 12, "import", "import", {"plt"}, {}, "matplotlib.pyplot", "", None),
     St(324, 13, "load", "numpy.loadtxt", {"filearray"}, {"numpy"}, "results.txt", "", None),
     St(325, 13, "assign", "T", {"data"}, {"filearray"}, "", "", None),
     St(326, 13, "assign", "arange", {"time_indx", "ca_elem_indx", "calcite_indx", "ca_species_indx", "hco3_indx", "ph_indx"}, {"numpy"}, "", "", None),
     St(343, 14, "assign", "row", {"time"}, {"data", "time_indx"}, "time_indx", "", None),
     Plt(345, 14, "plt.figure", ""),
     PltPlot(346, 14, "time", "ca_elem_indx", {"time", "ca_elem_indx"}),
     Plt(347, 14, "plt.xlabel", "time"),
     Plt(348, 14, "plt.ylabel", "Amount of Ca [mmolal]"),
     Plt(349, 14, "plt.legend", ""),
     Plt(350, 14, "plt.tight_layout", ""),
     Plt(359, 15, "plt.figure", ""),
     PltPlot(360, 15, "time", "calcite_indx", {"time", "calcite_indx"}),
     Plt(361, 15, "plt.xlabel", "time"),
     Plt(362, 15, "plt.ylabel", "Mass of Calcite [g]"),
     Plt(363, 15, "plt.legend", ""),
     Plt(364, 15, "plt.tight_layout", ""),
     Plt(373, 16, "plt.figure", ""),
     PltPlot(374, 16, "time", "ph_indx", {"time", "ph_indx"}),
     Plt(375, 16, "plt.xlabel", "time"),
     Plt(376, 16, "plt.ylabel", "ph"),
     Plt(377, 16, "plt.legend", ""),
     Plt(378, 16, "plt.tight_layout", ""),
     Plt(387, 17, "plt.figure", ""),
     PltPlot(388, 17, "time", "ca_species_indx", {"time", "ca_species_indx"}),
     PltPlot(389, 17, "time", "hco3_indx", {"time", "hco3_indx"}),
     Plt(390, 17, "plt.xlabel", "time"),
     Plt(391, 17, "plt.ylabel", "Molality [mmolal]"),
     Plt(392, 17, "plt.legend", ""),
     Plt(393, 17, "plt.tight_layout", "") >>

Notebooks == {"nacl", "evian", "eqpath", "kin"}

Program(n) ==
  CASE n = "nacl" -> Nacl
    [] n = "evian" -> Evian
    [] n = "eqpath" -> EqPath
    [] n = "kin" -> Kin

\* The index names unpacked from arange(6), in the order of the unpacking.
IndexNames(n) ==
  CASE n = "eqpath" -> <<"cl_indx", "co2aq_indx", "co3_indx", "ca_indx", "ph_indx", "calcite_indx">>
    [] n = "kin" -> <<"time_indx", "ca_elem_indx", "calcite_indx", "ca_species_indx", "hco3_indx", "ph_indx">>
    [] OTHER -> <<>>

\* ------------------------------------------------------------------ helpers
Range(f) == {f[i] : i \in DOMAIN f}

EmptyMap == [x \in {} |-> x]

\* f with every name of names mapped to v
Put(f, names, v) ==
  [n \in DOMAIN f \cup names |-> IF n \in names THEN v ELSE f[n]]

TheOne(S) == CHOOSE x \in S : TRUE

RECURSIVE Pow2(_)
Pow2(n) == IF n = 0 THEN 1 ELSE 2 * Pow2(n - 1)

RECURSIVE Gcd(_, _)
Gcd(a, b) == IF b = 0 THEN a ELSE Gcd(b, a % b)

\* Positive rationals <<numerator, denominator>> in lowest terms.
One == <<1, 1>>
Norm(q) == LET g == Gcd(q[1], q[2]) IN <<q[1] \div g, q[2] \div g>>
RatDiv(x, y) == Norm(<<x[1] * y[2], x[2] * y[1]>>)
RatLess(x, y) == x[1] * y[2] < y[1] * x[2]

\* math.exp on the integer grid the model draws logarithms from.  The base is
\* 2 in place of e: like exp it is strictly increasing, exp(0) = 1 and
\* exp(a - b) = exp(a) / exp(b), and its values are exact rationals.
Exp(n) == IF n >= 0 THEN <<Pow2(n), 1>> ELSE <<1, Pow2(0 - n)>>

\* lnQ.val - lnK.val
MinusSwapped(a, b) == b - a
Minus(a, b) == a - b

\* --------------------------------------------------------- library behaviour
\* ChemicalOutput::add: each call results in a new column of the output file;
\* with one argument the quantity name is also the label.
OutputAddFront(cols, q, label) ==
  <<[q |-> q, label |-> IF label = "" THEN q ELSE label]>> \o cols
OutputAdd(cols, q, label) ==
  Append(cols, [q |-> q, label |-> IF label = "" THEN q ELSE label])

\* The flat-text file the path solver writes: one row of column labels, then
\* NRows rows holding one value per configured column.
WriteFile(cols) ==
  <<[text |-> TRUE, cells |-> [c \in 1..Len(cols) |-> cols[c].label]]>> \o
  [r \in 1..NRows |->
     [text |-> FALSE, cells |-> [c \in 1..Len(cols) |-> [row |-> r, q |-> cols[c].q]]]]

\* numpy.loadtxt(file, skiprows=k): the lines after the first k, which must
\* all be numeric.
SkippedOneMore(lines, k) ==
  IF k + 1 >= Len(lines) THEN <<>> ELSE SubSeq(lines, k + 2, Len(lines))
Skipped(lines, k) == IF k >= Len(lines) THEN <<>> ELSE SubSeq(lines, k + 1, Len(lines))
Parsable(lines, k) == \A i \in DOMAIN Skipped(lines, k) : ~Skipped(lines, k)[i].text
LoadTxt(lines, k) == [i \in DOMAIN Skipped(lines, k) |-> Skipped(lines, k)[i].cells]

\* filearray.T
Transpose(m) ==
  IF m = <<>> THEN <<>>
  ELSE [c \in 1..Len(m[1]) |-> [r \in 1..Len(m) |-> m[r][c]]]

\* numpy.arange(n) = 0, 1, ..., n-1
Arange(n) == [i \in 1..n |-> i - 1]

\* [a, b, ...] = values: the i-th name gets the i-th value
Unpack(names, vals) == [n \in Range(names) |-> vals[CHOOSE i \in DOMAIN names : names[i] = n]]

\* data[k], zero-based as in Python
Row(m, k) == m[k + 1]

\* -------------------------------------------------------------------- state
VARIABLES
  nb,               \* the notebook that is run
  haltOnError,      \* whether the runner stops at the first cell that raises
  pc,               \* position of the next statement in the notebook
  halted,           \* the run was stopped by an error
  done,             \* positions of the statements that completed, in order
  failed,           \* positions of the statements that raised
  faults,           \* library calls that raised so far
  binder,           \* the namespace: name |-> line of the statement that bound it
  computed,         \* names whose value the notebook's own arithmetic produced
  sunk,             \* lines that pass a notebook-computed value on
  tasks,            \* background tasks started and not joined
  problem,          \* the problem.add calls made: object, species, molar mass of
  outFile,          \* filename configured on the path's output object
  outCols,          \* columns configured on the path's output object
  files,            \* the files written: name |-> lines
  console,          \* what was printed
  num,              \* numeric variables: lnK_*, lnQ_*, SR_*
  si,               \* SI_*: the saturation indices, as rationals
  lnsrc,            \* lnK_*, lnQ_* |-> the binding of props they were read from
  filearray,        \* the matrix loadtxt returned
  data,             \* its transpose
  idx,              \* the index names unpacked from arange
  series,           \* names bound to a row of data
  plots             \* the pyplot calls made

run == <<nb, haltOnError>>
ctl == <<pc, halted, done, failed, faults, binder, computed, sunk, tasks>>
objs == <<problem, outFile, outCols, files, console, num, si, lnsrc,
          filearray, data, idx, series, plots>>
vars == <<run, ctl, objs>>

Prog == Program(nb)
Cur == Prog[pc]
Running == ~halted /\ pc <= Len(Prog)
Finished == ~halted /\ pc > Len(Prog)
Clean == Finished /\ failed = {}


Init ==
  /\ nb \in Notebooks
  /\ haltOnError \in BOOLEAN
  /\ pc = 1
  /\ halted = FALSE
  /\ done = <<>>
  /\ failed = {}
  /\ faults = 0
  /\ binder = EmptyMap
  /\ computed = {}
  /\ sunk = {}
  /\ tasks = {}
  /\ problem = <<>>
  /\ outFile = ""
  /\ outCols = <<>>
  /\ files = EmptyMap
  /\ console = <<>>
  /\ num = EmptyMap
  /\ si = EmptyMap
  /\ lnsrc = EmptyMap
  /\ filearray = <<>>
  /\ data = <<>>
  /\ idx = EmptyMap
  /\ series = EmptyMap
  /\ plots = <<>>

\* ------------------------------------------------------- statement semantics
\* Lines that sit inside a try block: the notebooks have none.
TryLines(n) == {}

CatchesAll(s) == TRUE
Catches(s) == s.line \in TryLines(nb)

\* Calls that start a thread, a process or an asynchronous task.
SpawnCalls == {"Thread", "Process", "Timer", "Popen", "create_task", "submit"}

SpawnsSolver(s) == s.call = "path.solve"
Spawns(s) == s.call \in SpawnCalls

\* Every statement but a plain literal assignment can raise.
CanFault(s) == s.call \notin {"str", "tuple"}

Bound(s) == s.use \subseteq DOMAIN binder

NextPcSkip(p) == p + 2
NextPc(p) == p + 1

\* The first statement of the cell after the one holding statement p.
NextCell(p) ==
  LET later == {q \in p + 1..Len(Prog) : Prog[q].cell # Prog[p].cell}
  IN IF later = {} THEN Len(Prog) + 1
     ELSE CHOOSE q \in later : \A r \in later : q <= r

\* The names a notebook uses and never binds itself: only a star import can
\* provide them (numpy in the kinetics notebook).
UnboundIn(prog) ==
  UNION {s.use : s \in Range(prog)} \ UNION {s.def : s \in Range(prog)}
UnboundOf == [n \in Notebooks |-> UnboundIn(Program(n))]
Unbound(n) == UnboundOf[n]

\* What a star import may bind besides the package's own names: any of the
\* names the notebook leaves to it; whether reaktoro re-exports them is not
\* decided by the notebook.
StarExtras(s) == IF s.a1 = "reaktoro*" THEN SUBSET Unbound(nb) ELSE {{}}

\* The statement handles a value that notebook arithmetic produced.
DerivedAny(s, cn) == s.ops # None \/ s.use # {}
Derived(s, cn) == s.ops # None \/ s.use \cap cn # {}

\* The statement passes its values to the library, prints or plots them.
Sink(s) == s.op \notin {"import", "assign", "compute"}

\* A statement completes: its names are bound and the kernel moves on.
Complete(s, names) ==
  /\ pc' = NextPc(pc)
  /\ done' = Append(done, pc)
  /\ binder' = Put(binder, names, s.line)
  /\ computed' = IF Derived(s, computed) THEN computed \cup names ELSE computed \ names
  /\ sunk' = IF Sink(s) /\ Derived(s, computed) THEN sunk \cup {s.line} ELSE sunk
  /\ tasks' = IF Spawns(s) THEN tasks \cup {s.line} ELSE tasks
  /\ UNCHANGED <<run, halted, failed, faults>>

\* A statement raises: nothing is bound; a handler would resume after it,
\* otherwise the exception leaves the cell and the runner stops or goes on
\* with the next cell.
Abort(s) ==
  /\ failed' = failed \cup {pc}
  /\ IF Catches(s) THEN pc' = NextPc(pc) /\ halted' = halted
     ELSE IF haltOnError THEN pc' = pc /\ halted' = TRUE
     ELSE pc' = NextCell(pc) /\ halted' = halted
  /\ UNCHANGED <<run, done, binder, computed, sunk, tasks, objs>>

Ready(op) == Running /\ Cur.op = op /\ Bound(Cur)

\* ------------------------------------------------------------------ actions
\* import / from ... import *
Import ==
  /\ Ready("import")
  /\ \E extra \in StarExtras(Cur) : Complete(Cur, Cur.def \cup extra)
  /\ UNCHANGED objs

\* Database, ChemicalEditor, editor.add..., ChemicalSystem, Reaction,
\* Partition, EquilibriumPath, KineticPath, Phreeqc
Build ==
  /\ Ready("build")
  /\ Complete(Cur, Cur.def)
  /\ UNCHANGED objs

\* EquilibriumProblem, problem.set..., problem.add, problem.pH,
\* state0.setSpeciesMass
Define ==
  /\ Ready("define")
  /\ problem' =
       IF Cur.call = "problem.add"
       THEN Append(problem, [line |-> Cur.line,
                             obj |-> TheOne(Cur.use \ {"system"}),
                             species |-> Cur.a1, massOf |-> Cur.a2])
       ELSE problem
  /\ Complete(Cur, Cur.def)
  /\ UNCHANGED <<outFile, outCols, files, console, num, si, lnsrc,
                 filearray, data, idx, series, plots>>

\* path.output(), output.filename, output.add
Config ==
  /\ Ready("config")
  /\ outFile' = IF Cur.call = "output.filename" THEN Cur.a1 ELSE outFile
  /\ outCols' = IF Cur.call = "output.add"
                THEN OutputAdd(outCols, Cur.a1, Cur.a2) ELSE outCols
  /\ Complete(Cur, Cur.def)
  /\ UNCHANGED <<problem, files, console, num, si, lnsrc,
                 filearray, data, idx, series, plots>>

\* equilibrate, phreeqc.execute, path.solve; the path solver writes the
\* configured output file.
Solve ==
  /\ Ready("solve")
  /\ files' = IF Cur.call = "path.solve" /\ outFile # ""
              THEN Put(files, {outFile}, WriteFile(outCols)) ELSE files
  /\ Complete(Cur, Cur.def)
  /\ UNCHANGED <<problem, outFile, outCols, console, num, si, lnsrc,
                 filearray, data, idx, series, plots>>

\* Getters of the library; lnEquilibriumConstant and lnReactionQuotient
\* return a value the notebook computes with.
Query(range) ==
  /\ Ready("query")
  /\ IF Cur.call \in {"lnEquilibriumConstant", "lnReactionQuotient"}
     THEN \E v \in range :
            /\ num' = Put(num, Cur.def, v)
            /\ lnsrc' = Put(lnsrc, Cur.def, binder["props"])
     ELSE UNCHANGED <<num, lnsrc>>
  /\ Complete(Cur, Cur.def)
  /\ UNCHANGED <<problem, outFile, outCols, files, console, si,
                 filearray, data, idx, series, plots>>

\* SR = lnQ.val - lnK.val and SI = exp(SR)
Compute ==
  /\ Ready("compute")
  /\ IF Cur.call = "-"
     THEN /\ num' = Put(num, Cur.def, Minus(num[Cur.a1], num[Cur.a2]))
          /\ si' = si
     ELSE /\ si' = Put(si, Cur.def, Exp(num[Cur.a1]))
          /\ num' = num
  /\ Complete(Cur, Cur.def)
  /\ UNCHANGED <<problem, outFile, outCols, files, console, lnsrc,
                 filearray, data, idx, series, plots>>

\* loadtxt(name, skiprows=1) on a file that exists and parses
Load ==
  /\ Ready("load")
  /\ Cur.a1 \in DOMAIN files
  /\ Parsable(files[Cur.a1], SkipRows)
  /\ filearray' = LoadTxt(files[Cur.a1], SkipRows)
  /\ Complete(Cur, Cur.def)
  /\ UNCHANGED <<problem, outFile, outCols, files, console, num, si, lnsrc,
                 data, idx, series, plots>>

\* loadtxt on a file that is missing or holds text below the skipped rows
LoadFails ==
  /\ Ready("load")
  /\ ~(Cur.a1 \in DOMAIN files /\ Parsable(files[Cur.a1], SkipRows))
  /\ Abort(Cur)
  /\ UNCHANGED faults

\* The rows of data a statement indexes all exist.
HasRow(name) == IF name \in DOMAIN series THEN TRUE ELSE idx[name] < Len(data)
InRange(s) ==
  CASE s.call = "row" -> HasRow(s.a1)
    [] s.call = "plt.plot" -> HasRow(s.a1) /\ HasRow(s.a2)
    [] OTHER -> TRUE

\* Plain Python: the script string, t0 and t1, the transpose, the unpacking
\* of arange(6), a row of data.
Assign ==
  /\ Ready("assign")
  /\ InRange(Cur)
  /\ data' = IF Cur.call = "T" THEN Transpose(filearray) ELSE data
  /\ idx' = IF Cur.call = "arange"
            THEN Unpack(IndexNames(nb), Arange(NCols)) ELSE idx
  /\ series' = IF Cur.call = "row"
               THEN Put(series, Cur.def, Row(data, idx[Cur.a1])) ELSE series
  /\ Complete(Cur, Cur.def)
  /\ UNCHANGED <<problem, outFile, outCols, files, console, num, si, lnsrc,
                 filearray, plots>>

\* print(...)
WriteConsole ==
  /\ Ready("print")
  /\ console' = Append(console, [line |-> Cur.line, name |-> Cur.a1])
  /\ Complete(Cur, Cur.def)
  /\ UNCHANGED <<problem, outFile, outCols, files, num, si, lnsrc,
                 filearray, data, idx, series, plots>>

\* The row of data a plot argument names: a bound row or data[index].
Resolve(name) == IF name \in DOMAIN series THEN series[name] ELSE Row(data, idx[name])
QuantityOf(row) == row[1].q

\* plt.figure, plt.plot, plt.xlabel, plt.ylabel, plt.legend, plt.tight_layout
Plot ==
  /\ Ready("plot")
  /\ InRange(Cur)
  /\ plots' = Append(plots,
       IF Cur.call = "plt.plot"
       THEN [line |-> Cur.line, call |-> Cur.call,
             x |-> QuantityOf(Resolve(Cur.a1)), y |-> QuantityOf(Resolve(Cur.a2)),
             text |-> ""]
       ELSE [line |-> Cur.line, call |-> Cur.call, x |-> "", y |-> "",
             text |-> Cur.a1])
  /\ Complete(Cur, Cur.def)
  /\ UNCHANGED <<problem, outFile, outCols, files, console, num, si, lnsrc,
                 filearray, data, idx, series>>

\* A call raises inside the library.
Raise ==
  /\ Running
  /\ Bound(Cur)
  /\ CanFault(Cur)
  /\ faults < MaxFaults
  /\ faults' = faults + 1
  /\ Abort(Cur)

\* A statement uses a name that is not bound.
NameError ==
  /\ Running
  /\ ~Bound(Cur)
  /\ Abort(Cur)
  /\ UNCHANGED faults

\* data[k] with k beyond the rows of data
IndexError ==
  /\ Running
  /\ Bound(Cur)
  /\ ~InRange(Cur)
  /\ Abort(Cur)
  /\ UNCHANGED faults

Next ==
  \/ Import
  \/ Build
  \/ Define
  \/ Config
  \/ Solve
  \/ Query(LnSample)
  \/ Compute
  \/ Load
  \/ LoadFails
  \/ Assign
  \/ WriteConsole
  \/ Plot
  \/ Raise
  \/ NameError
  \/ IndexError

Spec == Init /\ [][Next]_vars

\* The runs in which no library call raises.
NextClean ==
  \/ Import
  \/ Build
  \/ Define
  \/ Config
  \/ Solve
  \/ Query(LnValues)
  \/ Compute
  \/ Load
  \/ Assign
  \/ WriteConsole
  \/ Plot
  \/ NameError

SpecClean == Init /\ [][NextClean]_vars

\* ---------------------------------------------------------------- the claims
Lines == {Prog[p].line : p \in Range(done)}
FailedLines == {Prog[p].line : p \in failed}

\* The phase a statement belongs to.
PhaseOf(s) ==
  CASE s.op = "import" -> "import"
    [] s.op \in {"build", "define", "config"} -> "build"
    [] s.op = "solve" -> "solve"
    [] s.op \in {"print", "plot"} -> "show"
    [] OTHER -> "other"

SolvedBefore(j) == \E i \in 1..(j - 1) : Prog[done[i]].op = "solve"

\* The statement at position p was left out because an earlier statement of
\* its cell raised.
LeftOut(p) ==
  \E q \in failed : q < p /\ Prog[q].cell = Prog[p].cell

\* C1 as claimed: a run in which nothing raises passes once through import,
\* build, solve, print/plot: no building or problem-defining call completes
\* after a solve call has, and nothing is printed or plotted before the first
\* solve call.
C1_PhasesInOrder ==
  failed = {} =>
  \A j \in DOMAIN done :
    /\ PhaseOf(Prog[done[j]]) = "build" => ~SolvedBefore(j)
    /\ PhaseOf(Prog[done[j]]) = "show" => SolvedBefore(j)

\* C1 amended: the notebook is a flat linear script: every statement before
\* pc completed, raised, or was left out after a raise in its own cell,
\* nothing at or after pc has run, and the completed statements are in source
\* order; and while nothing has raised, the import of reaktoro is the first
\* statement completed, every solve call comes after a building call, and
\* every plot and every print but that of the system comes after a solve call.
C1_LinearScript ==
  LET ran == Range(done)
      solves == {p \in ran : Prog[p].op = "solve"}
      shows == {p \in ran : PhaseOf(Prog[p]) = "show" /\ Prog[p].a1 # "system"}
  IN
  /\ \A j \in 2..Len(done) : done[j - 1] < done[j]
  /\ ran \cap failed = {}
  /\ \A p \in DOMAIN Prog :
       IF p < pc
       THEN p \in ran \cup failed \/ LeftOut(p)
       ELSE /\ p \notin ran
            /\ p \in failed => halted /\ p = pc
  /\ failed = {} =>
       /\ done # <<>> => done[1] = 1 /\ Prog[1].a1 = "reaktoro*"
       /\ \A s \in solves : \E b \in ran : b < s /\ PhaseOf(Prog[b]) = "build"
       /\ \A p \in shows : \E s \in solves : s < p

\* C1 witness: the sodium-chloride notebook ran to its end without a raise;
\* it printed the system before its first solve and added salt after it.
C1_Witness ==
  /\ nb = "nacl"
  /\ Clean
  /\ 84 \in Lines
  /\ 169 \in Lines

\* C2: every statement runs to completion before the next starts: no
\* background task exists at any time, and every statement that has run lies
\* before the position of the kernel.
C2_Synchronous ==
  /\ tasks = {}
  /\ \A p \in Range(done) : p < pc
  /\ \A p \in failed : p < pc \/ (halted /\ p = pc)

\* C2 witness: the equilibrium path was solved and its output file loaded.
C2_Witness ==
  /\ nb = "eqpath"
  /\ 200 \in Lines
  /\ 236 \in Lines
  /\ tasks = {}

\* The statement at position p reads, in a run without a raise, a binding
\* that the part of the cell from the raised statement f on would have made.
DependsOn(p, f) ==
  \E n \in Prog[p].use :
    LET defs == {q \in 1..(p - 1) : n \in Prog[q].def} IN
    /\ defs # {}
    /\ LET q == CHOOSE q \in defs : \A r \in defs : r <= q IN
       /\ Prog[q].cell = Prog[f].cell
       /\ q >= f

\* After a raise at f nothing more of f's cell runs.
RestOfCellSkipped(f) ==
  \A p \in Range(done) \cup failed :
    p > f => Prog[p].cell # Prog[f].cell

C3_BindingsAreCompleted ==
  LET ran == Range(done)
      completed == Lines
  IN
  /\ \A f \in failed : RestOfCellSkipped(f)
  /\ \A n \in DOMAIN binder : binder[n] \in completed
  /\ haltOnError /\ failed # {} =>
       /\ halted
       /\ \A p \in ran : \A f \in failed : p < f

\* A step that completes a statement completes the one at pc, and every name
\* that statement uses is bound, by a statement of an earlier source line.
C3_CompletesOnlyBound ==
  done' # done =>
    /\ done' = Append(done, pc)
    /\ Prog[pc].use \subseteq DOMAIN binder
    /\ \A n \in Prog[pc].use : binder[n] < Prog[pc].line

C4_NoNotebookArithmetic == sunk = {}

\* The Evian lines that pass on a value computed by the notebook: the mg/L
\* conversions, the silica amount and the three saturation indices.
EvianArithmetic == {101, 103, 105, 107, 109, 111, 113, 115, 132, 213, 214, 215}

\* C4 amended: every solver step is a library call without notebook
\* arithmetic; outside the Evian notebook no value is computed by the
\* notebook; in the Evian notebook the computed values passed on are the
\* unit conversions of the amounts and the saturation indices, nothing else.
C4_SolversDelegated ==
  /\ \A p \in Range(done) : Prog[p].op = "solve" => Prog[p].line \notin sunk
  /\ nb # "evian" => sunk = {} /\ computed = {}
  /\ nb = "evian" => sunk \subseteq EvianArithmetic
  /\ nb = "evian" /\ failed = {} => sunk = EvianArithmetic \cap Lines

\* C4 witness: the Evian notebook passed a converted amount to problem.add and
\* printed a saturation index, and its equilibrate took no computed value.
C4_Witness ==
  /\ nb = "evian"
  /\ {101, 169, 213} \subseteq Lines
  /\ {101, 213} \subseteq sunk

Minerals == {"calcite", "dolomite", "quartz"}
Printed(name) == \E i \in DOMAIN console : console[i].name = name
K(m) == Exp(num["lnK_" \o m])
Q(m) == Exp(num["lnQ_" \o m])
SI(m) == si["SI_" \o m]

C6_SignOfSaturation ==
  /\ \A m \in Minerals :
       "SI_" \o m \in DOMAIN si =>
         /\ SI(m) = One <=> Q(m) = K(m)
         /\ RatLess(One, SI(m)) <=> RatLess(K(m), Q(m))
         /\ RatLess(SI(m), One) <=> RatLess(Q(m), K(m))
  /\ \A n \in DOMAIN lnsrc : lnsrc[n] = 192

\* C6 witness: the three indices were printed, one above 1, one below 1 and
\* one equal to 1.
C6_Witness ==
  /\ Printed("SI_quartz")
  /\ RatLess(One, SI("calcite"))
  /\ RatLess(SI("dolomite"), One)
  /\ SI("quartz") = One

\* C7: every amount converted with a molar mass uses the molar mass of the
\* species that is added.
C7_SameSpecies ==
  \A i \in DOMAIN problem :
    problem[i].massOf # "" => problem[i].massOf = problem[i].species

\* C8: at the end of the Evian notebook the state read from PHREEQC is in the
\* file state-water-analysis-with-phreeqc.txt and on the console.
C8_FileAndConsole ==
  nb = "evian" /\ Clean =>
    /\ "state-water-analysis-with-phreeqc.txt" \in DOMAIN files
    /\ console[Len(console)] = [line |-> 373, name |-> "state"]

\* C9: in the kinetics notebook the path's output goes to result.txt.
C9_ResultTxt ==
  nb = "kin" /\ 288 \in Lines /\ failed = {} =>
    /\ outFile = "result.txt"
    /\ "result.txt" \in DOMAIN files

\* What an index name stands for, and what a configured quantity measures.
Denotes(name) ==
  CASE name = "cl_indx" -> "Cl"
    [] name = "co2aq_indx" -> "CO2(aq)"
    [] name = "co3_indx" -> "CO3--"
    [] name = "ca_indx" -> "Ca"
    [] name = "ph_indx" -> "pH"
    [] name = "calcite_indx" -> "Calcite"
    [] name = "time_indx" -> "time"
    [] name = "ca_elem_indx" -> "Ca"
    [] name = "ca_species_indx" -> "Ca++"
    [] name = "hco3_indx" -> "HCO3-"

Subject(q) ==
  CASE q = "elementAmount(Cl units=mmol)" -> "Cl"
    [] q = "speciesMolality(CO2(aq) units=mmolal)" -> "CO2(aq)"
    [] q = "speciesMolality(CO3-- units=mmolal)" -> "CO3--"
    [] q = "elementMolality(Ca units=mmolal)" -> "Ca"
    [] q = "pH" -> "pH"
    [] q = "speciesMass(Calcite units=g)" -> "Calcite"
    [] q = "time(units=minute)" -> "time"
    [] q = "phaseMass(Calcite units=g)" -> "Calcite"
    [] q = "speciesMolality(Ca++ units=mmolal)" -> "Ca++"
    [] q = "speciesMolality(HCO3- units=mmolal)" -> "HCO3-"

\* The output.add calls that completed, in the order of their completion.
AddsDone == SelectSeq(done, LAMBDA p : Prog[p].call = "output.add")
AllAdds == {s.line : s \in {x \in Range(Prog) : x.call = "output.add"}}

\* C10: each completed output.add made one new column, in call order; and
\* once all output.add calls are made, the file written has six columns and
\* the i-th index name unpacked from arange(6) is i-1, stands for the
\* quantity of the i-th output.add, and selects that quantity's row of data.
C10_ColumnsInCallOrder ==
  /\ Len(outCols) = Len(AddsDone)
  /\ \A i \in DOMAIN outCols : outCols[i].q = Prog[AddsDone[i]].a1
  /\ AllAdds # {} /\ AllAdds \subseteq Lines =>
       /\ Len(outCols) = NCols
       /\ \A f \in DOMAIN files :
            \A r \in DOMAIN files[f] : Len(files[f][r].cells) = NCols
       /\ "data" \in DOMAIN binder /\ idx # EmptyMap =>
            \A i \in DOMAIN IndexNames(nb) :
              LET name == IndexNames(nb)[i] IN
              /\ idx[name] = i - 1
              /\ Denotes(name) = Subject(outCols[i].q)
              /\ \A r \in 1..NRows :
                   Row(data, idx[name])[r] = [row |-> r, q |-> outCols[i].q]

\* C10 witness: the kinetics notebook configured its six columns, solved the
\* path, loaded the file and unpacked the six indices.
C10_Witness ==
  /\ nb = "kin"
  /\ AllAdds \subseteq Lines
  /\ {288, 325, 326} \subseteq Lines
  /\ Len(data) = NCols

\* The plt.plot calls made at a source line.
PlotsAt(line) ==
  {i \in DOMAIN plots : plots[i].call = "plt.plot" /\ plots[i].line = line}

\* C11: in the equilibrium-path notebook the first plot has the amount of Cl
\* on the x-axis and pH on the y-axis: the first argument of plt.plot is the
\* Cl column and the second the pH column.
C11_FirstPlotClOverPH ==
  nb = "eqpath" =>
    \A i \in PlotsAt(269) :
      /\ plots[i].x = "elementAmount(Cl units=mmol)"
      /\ plots[i].y = "pH"

\* The unit a configured quantity is written in.
Unit(q) ==
  CASE q = "elementAmount(Cl units=mmol)" -> "mmol"
    [] q = "speciesMolality(CO2(aq) units=mmolal)" -> "mmolal"
    [] q = "speciesMolality(CO3-- units=mmolal)" -> "mmolal"
    [] q = "elementMolality(Ca units=mmolal)" -> "mmolal"
    [] q = "pH" -> ""
    [] q = "speciesMass(Calcite units=g)" -> "g"
    [] q = "time(units=minute)" -> "minute"
    [] q = "phaseMass(Calcite units=g)" -> "g"
    [] q = "speciesMolality(Ca++ units=mmolal)" -> "mmolal"
    [] q = "speciesMolality(HCO3- units=mmolal)" -> "mmolal"

\* What the text of an axis label of the equilibrium-path notebook names: a
\* subject (none when the label gives only the kind of quantity) and the
\* unit in its brackets.
AxisLabel(text) ==
  CASE text = "pH" -> [subject |-> "pH", unit |-> ""]
    [] text = "Amount of Cl [mmol]" -> [subject |-> "Cl", unit |-> "mmol"]
    [] text = "Concentration of Ca [mmolal]" -> [subject |-> "Ca", unit |-> "mmolal"]
    [] text = "Concentration [mmolal]" -> [subject |-> "", unit |-> "mmolal"]
    [] text = "HCl [mmol]" -> [subject |-> "HCl", unit |-> "mmol"]
    [] text = "Mass [g]" -> [subject |-> "", unit |-> "g"]

\* The element whose amount measures an added compound: the final problem
\* differs from the initial one by HCl alone, the only source of Cl.
ElementOf(subject) == IF subject = "HCl" THEN "Cl" ELSE subject

\* An axis label names a column: the units agree, and the subject of the
\* label, when it gives one, is the subject of the column.
NamesColumn(text, q) ==
  LET l == AxisLabel(text) IN
  /\ l.unit = Unit(q)
  /\ l.subject # "" => ElementOf(l.subject) = Subject(q)

\* The plt.plot calls of the figure that the label call at index i labels.
PlotsLabelledBy(i) ==
  {k \in 1..(i - 1) :
     /\ plots[k].call = "plt.plot"
     /\ \A m \in k..i : plots[m].call # "plt.figure"}

\* C12: in the equilibrium-path notebook plot 2 has the Cl amount on x and
\* the Ca molality on y, plot 3 has pH on x and the CO2(aq) and CO3--
\* molalities on y, plot 4 has the Cl amount on x and the calcite mass on y;
\* every xlabel names the column passed as x and every ylabel the column
\* passed as y; and a run that ends without an error has made all of them.
C12_AxesAsDescribed ==
  nb = "eqpath" =>
    /\ \A i \in PlotsAt(291) :
         /\ plots[i].x = "elementAmount(Cl units=mmol)"
         /\ plots[i].y = "elementMolality(Ca units=mmolal)"
    /\ \A i \in PlotsAt(312) :
         /\ plots[i].x = "pH"
         /\ plots[i].y = "speciesMolality(CO2(aq) units=mmolal)"
    /\ \A i \in PlotsAt(313) :
         /\ plots[i].x = "pH"
         /\ plots[i].y = "speciesMolality(CO3-- units=mmolal)"
    /\ \A i \in PlotsAt(335) :
         /\ plots[i].x = "elementAmount(Cl units=mmol)"
         /\ plots[i].y = "speciesMass(Calcite units=g)"
    /\ \A i \in DOMAIN plots :
         /\ plots[i].call = "plt.xlabel" =>
              \A k \in PlotsLabelledBy(i) : NamesColumn(plots[i].text, plots[k].x)
         /\ plots[i].call = "plt.ylabel" =>
              \A k \in PlotsLabelledBy(i) : NamesColumn(plots[i].text, plots[k].y)
    /\ Clean =>
         /\ \A l \in {269, 291, 312, 313, 335} : PlotsAt(l) # {}
         /\ \A l \in {270, 271, 292, 293, 314, 315, 336, 337} :
              \E i \in DOMAIN plots : plots[i].line = l /\ PlotsLabelledBy(i) # {}

\* C12 witness: the equilibrium-path notebook ran to its end without an
\* error and the fourth figure carries its plot and both labels.
C12_Witness ==
  /\ nb = "eqpath"
  /\ Clean
  /\ PlotsAt(335) # {}
  /\ \E i \in DOMAIN plots : plots[i].line = 337 /\ PlotsLabelledBy(i) = PlotsAt(335)

\* C13: in the kinetics notebook every plot has the chemical property on the
\* x-axis and the time of the simulation on the y-axis: the first argument
\* of each plt.plot is the property column and the second the time column.
C13_PropertyOverTime ==
  nb = "kin" =>
    \A i \in DOMAIN plots :
      plots[i].call = "plt.plot" =>
        /\ plots[i].x # "time(units=minute)"
        /\ plots[i].y = "time(units=minute)"

\* The positions of the statements that read a file, of the statements that
\* name the output file and of the path solver's call.
CallsOf ==
  [n \in Notebooks |->
     [loads |-> {p \in DOMAIN Program(n) : Program(n)[p].op = "load"},
      filenames |-> {p \in DOMAIN Program(n) : Program(n)[p].call = "output.filename"},
      solves |-> {p \in DOMAIN Program(n) : Program(n)[p].call = "path.solve"}]]
Loads == CallsOf[nb].loads
Filenames == CallsOf[nb].filenames
PathSolves == CallsOf[nb].solves

\* The statements that were executed: completed or raised.
Executed == Range(done) \cup failed

\* C14: a notebook reads no file but the one its own output object wrote.
\* Every loadtxt names the file that output.filename names; when loadtxt is
\* called the call of path.solve before it is over, and a loadtxt that
\* returns follows a path.solve that returned and wrote that file; and what
\* it returns is the file without its first row, the row of column labels:
\* all the rows of values and nothing else.
C14_ReadsOwnOutput ==
  /\ \A p \in Loads : \E c \in Filenames : c < p /\ Prog[c].a1 = Prog[p].a1
  /\ LET executed == Executed IN
     \A p \in Loads \cap executed :
       \E q \in PathSolves \cap executed : q < p
  /\ \A j \in DOMAIN done :
       done[j] \in Loads =>
         LET name == Prog[done[j]].a1 IN
         /\ name = outFile
         /\ \E i \in 1..(j - 1) : done[i] \in PathSolves
         /\ name \in DOMAIN files
         /\ files[name] = WriteFile(outCols)
         /\ files[name][1].text
         /\ Len(filearray) = NRows
         /\ \A r \in 1..NRows :
              /\ ~files[name][r + 1].text
              /\ filearray[r] = files[name][r + 1].cells

\* C14 witness: the equilibrium-path notebook solved the path and loaded
\* result.txt, a file of a header row and NRows rows of values.
C14_Witness ==
  /\ nb = "eqpath"
  /\ 236 \in Lines
  /\ Len(files["result.txt"]) = NRows + SkipRows
  /\ Len(filearray) = NRows
====
